---- MODULE Spec2Model ----
(***************************************************************************)
(* Release search and ranking of PremierePulse (src/App.tsx).              *)
(*                                                                         *)
(* A string is a sequence of characters; a character is a one-element name *)
(* ("a", "-", "e_acute", ...).  The conversions of normalizeStr are        *)
(* modelled character class by character class, as the JavaScript built-   *)
(* ins perform them.                                                       *)
(***************************************************************************)
EXTENDS Integers, Sequences, FiniteSets, TLC

VARIABLES data, activeTab, debouncedSearch, scoredItems, filteredReleases, pc,
          strA, strB, returned,
          searchQuery, timers, handler, sinceChange,
          notifiedItems, watchlistItems, confirmModal,
          loading, error, cache, inflight, dataFetchedRef

vars == <<data, activeTab, debouncedSearch, scoredItems, filteredReleases, pc,
          strA, strB, returned,
          searchQuery, timers, handler, sinceChange,
          notifiedItems, watchlistItems, confirmModal,
          loading, error, cache, inflight, dataFetchedRef>>

\* the state of the search box and of useDebounce
debounceVars == <<searchQuery, timers, handler, sinceChange>>

\* the reminder and watchlist sets and the confirmation modal
notifyVars == <<notifiedItems, watchlistItems, confirmModal>>

\* the state loadData works on
loadVars == <<loading, error, cache, inflight, dataFetchedRef>>

(***************************************************************************)
(* Characters                                                              *)
(***************************************************************************)
UpperLetters == <<"A","B","C","D","E","F","G","H","I","J","K","L","M",
                  "N","O","P","Q","R","S","T","U","V","W","X","Y","Z">>
LowerLetters == <<"a","b","c","d","e","f","g","h","i","j","k","l","m",
                  "n","o","p","q","r","s","t","u","v","w","x","y","z">>
Digits == {"0","1","2","3","4","5","6","7","8","9"}

\* U+0300..U+036F, the range removed by the first replace of normalizeStr
CombiningMarks == {"U0301", "U0308"}

\* characters matched by \s and removed by trim()
WhiteSpace == {" ", "TAB", "NBSP"}

\* String.prototype.normalize("NFD") on one character: a precomposed
\* letter becomes its base letter followed by the combining mark
NFDChar(c) ==
    CASE c = "e_acute" -> <<"e", "U0301">>
      [] c = "E_acute" -> <<"E", "U0301">>
      [] c = "u_uml"   -> <<"u", "U0308">>
      [] OTHER         -> <<c>>

\* String.prototype.toLowerCase on one character
toLowerCase(c) ==
    IF \E k \in 1..26 : UpperLetters[k] = c
    THEN LowerLetters[CHOOSE k \in 1..26 : UpperLetters[k] = c]
    ELSE CASE c = "E_acute" -> "e_acute"
           [] OTHER -> c

\* a character class that lets the hyphen through
IsLowerAlnum_hyphen(c) ==
    (\E k \in 1..26 : LowerLetters[k] = c) \/ c \in Digits \/ c = "-"

\* the character class [a-z0-9]
IsLowerAlnum(c) == (\E k \in 1..26 : LowerLetters[k] = c) \/ c \in Digits

(***************************************************************************)
(* String built-ins                                                        *)
(***************************************************************************)
\* normalize("NFD") character by character; the string is halved at each
\* step, which keeps the evaluation depth logarithmic in its length
RECURSIVE Normalize_NFD(_)
Normalize_NFD(s) ==
    IF Len(s) = 0 THEN <<>>
    ELSE IF Len(s) = 1 THEN NFDChar(s[1])
    ELSE LET h == Len(s) \div 2
         IN Normalize_NFD(SubSeq(s, 1, h)) \o Normalize_NFD(SubSeq(s, h + 1, Len(s)))

\* white space left as it is
CollapseSpaces_none(s) == s

\* replace(/\s+/g, " "): every maximal run of white space becomes one space
\* (a white-space character that follows another one is dropped, the first
\* one of the run becomes the space)
CollapseSpaces(s) ==
    LET marked == [k \in 1..Len(s) |->
                     [c |-> s[k], follows |-> k > 1 /\ s[k - 1] \in WhiteSpace]]
        kept   == SelectSeq(marked, LAMBDA m : ~(m.c \in WhiteSpace /\ m.follows))
    IN [k \in 1..Len(kept) |-> IF kept[k].c \in WhiteSpace THEN " " ELSE kept[k].c]

\* the string from its first character outside `blank` on
DropLeading(s, blank) ==
    LET ink == {k \in 1..Len(s) : s[k] \notin blank}
    IN IF ink = {} THEN <<>>
       ELSE SubSeq(s, CHOOSE k \in ink : \A j \in ink : k <= j, Len(s))

\* the string up to its last character outside `blank`
DropTrailing(s, blank) ==
    LET ink == {k \in 1..Len(s) : s[k] \notin blank}
    IN IF ink = {} THEN <<>>
       ELSE SubSeq(s, 1, CHOOSE k \in ink : \A j \in ink : j <= k)

TrimStart(s) == DropLeading(s, WhiteSpace)

TrimEnd(s) == DropTrailing(s, WhiteSpace)

\* a trim that removes the space character only
trim_spaceOnly(s) == DropTrailing(DropLeading(s, {" "}), {" "})

trim(s) == TrimEnd(TrimStart(s))

startsWith(s, p) == Len(p) <= Len(s) /\ SubSeq(s, 1, Len(p)) = p

includes(s, p) ==
    \E k \in 0..(Len(s) - Len(p)) : SubSeq(s, k + 1, k + Len(p)) = p

\* String.prototype.split(' '): the pieces between single spaces, empty
\* pieces included ("" splits to [""])
split(s) ==
    LET seps   == {k \in 1..Len(s) : s[k] = " "}
        n      == Cardinality(seps)
        sep(m) == IF m = 0 THEN 0
                  ELSE IF m = n + 1 THEN Len(s) + 1
                  ELSE CHOOSE k \in seps : Cardinality({j \in seps : j <= k}) = m
    IN [m \in 1..(n + 1) |-> SubSeq(s, sep(m - 1) + 1, sep(m) - 1)]

\* Array.prototype.join('')
RECURSIVE join(_)
join(parts) == IF parts = <<>> THEN <<>> ELSE Head(parts) \o join(Tail(parts))

Max(x, y) == IF x >= y THEN x ELSE y
Min(x, y) == IF x <= y THEN x ELSE y

(***************************************************************************)
(* Helper functions of App.tsx                                             *)
(***************************************************************************)
\* a cell that charges 2 for the step from the cell to its left
LevCell_left2(prev, row, i, j, a, b) ==
    IF b[i] = a[j] THEN prev[j]
    ELSE Min(prev[j] + 1, Min(row[j] + 2, prev[j + 1] + 1))

\* a cell that charges 2 for a substitution
LevCell_substitution2(prev, row, i, j, a, b) ==
    IF b[i] = a[j] THEN prev[j]
    ELSE Min(prev[j] + 2, Min(row[j] + 1, prev[j + 1] + 1))

\* matrix[i][j] from the row above (prev) and the cells to its left (row);
\* row[j + 1] is matrix[i][j]
LevCell(prev, row, i, j, a, b) ==
    IF b[i] = a[j] THEN prev[j]
    ELSE Min(prev[j] + 1, Min(row[j] + 1, prev[j + 1] + 1))

\* the inner loop: row holds matrix[i][0 .. Len(row) - 1] and is extended,
\* left to right, up to column hi; the range is halved at each step, which
\* keeps the evaluation depth logarithmic
RECURSIVE LevFillRow(_, _, _, _, _, _)
LevFillRow(prev, row, i, hi, a, b) ==
    LET j == Len(row)
    IN IF j > hi THEN row
       ELSE IF j = hi THEN Append(row, LevCell(prev, row, i, j, a, b))
       ELSE LevFillRow(prev, LevFillRow(prev, row, i, (j + hi) \div 2, a, b), i, hi, a, b)

\* the outer loop: matrix holds rows 0 .. Len(matrix) - 1 and is extended,
\* top to bottom, up to row hi; matrix[i][0] = i starts row i
RECURSIVE LevRows(_, _, _, _)
LevRows(matrix, hi, a, b) ==
    LET i == Len(matrix)
    IN IF i > hi THEN matrix
       ELSE IF i = hi THEN Append(matrix, LevFillRow(matrix[i], <<i>>, i, Len(a), a, b))
       ELSE LevRows(LevRows(matrix, (i + hi) \div 2, a, b), hi, a, b)

getLevenshteinDistance(a, b) ==
    IF Len(a) = 0 THEN Len(b)
    ELSE IF Len(b) = 0 THEN Len(a)
    ELSE LET row0 == [j \in 1..(Len(a) + 1) |-> j - 1]
         IN LevRows(<<row0>>, Len(b), a, b)[Len(b) + 1][Len(a) + 1]

\* the white-space runs collapsed before the punctuation is replaced
normalizeStr_collapseFirst(str) ==
    LET decomposed == Normalize_NFD(str)
        stripped   == SelectSeq(decomposed, LAMBDA c : c \notin CombiningMarks)
        lowered    == [k \in 1..Len(stripped) |-> toLowerCase(stripped[k])]
        collapsed  == CollapseSpaces(lowered)
        spaced     == [k \in 1..Len(collapsed) |->
                         IF IsLowerAlnum(collapsed[k]) THEN collapsed[k] ELSE " "]
    IN trim(spaced)

normalizeStr(str) ==
    LET decomposed == Normalize_NFD(str)
        stripped   == SelectSeq(decomposed, LAMBDA c : c \notin CombiningMarks)
        lowered    == [k \in 1..Len(stripped) |-> toLowerCase(stripped[k])]
        spaced     == [k \in 1..Len(lowered) |->
                         IF IsLowerAlnum(lowered[k]) THEN lowered[k] ELSE " "]
    IN trim(CollapseSpaces(spaced))

\* the pieces of the split, empty ones included
tokenize_unfiltered(str) == split(normalizeStr(str))

tokenize(str) == SelectSeq(split(normalizeStr(str)), LAMBDA t : Len(t) > 0)

(***************************************************************************)
(* Inputs                                                                  *)
(***************************************************************************)
MaxRecords == 2
MaxQueryLen == 2

\* An absent optional field and the empty string are both <<>>, an absent
\* number and 0 are both 0: the code reads them through (item.platform || ""),
\* (item.description || ""), (a.timestamp || 0), ...
Pool ==
    { [id |-> "r1", timestamp |-> 3, rating |-> 7, popularity |-> 1,
       title |-> <<"a","b">>, category |-> "Anime",
       platform |-> <<>>, description |-> <<>>],
      [id |-> "r2", timestamp |-> 1, rating |-> 7, popularity |-> 5,
       title |-> <<"a","b"," ","b">>, category |-> "Anime",
       platform |-> <<"A","b",","," ","B">>, description |-> <<"a","b","!">>],
      [id |-> "r3", timestamp |-> 2, rating |-> 9, popularity |-> 5,
       title |-> <<"CJK","CJK">>, category |-> "Anime",
       platform |-> <<>>, description |-> <<"e","a","c","h"," ","z","z">>],
      [id |-> "r4", timestamp |-> 3, rating |-> 0, popularity |-> 2,
       title |-> <<"A","B">>, category |-> "Movie",
       platform |-> <<>>, description |-> <<>>],
      [id |-> "r5", timestamp |-> 5, rating |-> 8, popularity |-> 9,
       title |-> <<"B","l","e","a","c","h">>, category |-> "Anime",
       platform |-> <<>>, description |-> <<>>],
      [id |-> "r6", timestamp |-> 4, rating |-> 8, popularity |-> 0,
       title |-> <<"B","l","e","a","c","h",":"," ","B","l","o","o","d"," ","W","a","r">>,
       category |-> "Anime", platform |-> <<>>,
       description |-> <<"B","L","E","A","C","H","!">>],
      [id |-> "r7", timestamp |-> 0, rating |-> 6, popularity |-> 9,
       title |-> <<"M","y"," ","H","e","r","o"," ","A","c","a","d","e","m","i","a">>,
       category |-> "Anime", platform |-> <<>>, description |-> <<>>],
      [id |-> "r8", timestamp |-> 6, rating |-> 5, popularity |-> 3,
       title |-> <<"a","b">>, category |-> "Anime",
       platform |-> <<"A","n","i","m","e"," ","T","V">>, description |-> <<>>],
      [id |-> "r9", timestamp |-> 6, rating |-> 5, popularity |-> 3,
       title |-> <<"a","b">>, category |-> "Movie",
       platform |-> <<"A","n","i","m","e"," ","T","V">>, description |-> <<>>] }

Tabs == {"All", "Anime", "Movie"}

QueryChars == {"a", "b", " "}

NamedQueries ==
    { <<"B","l","e","a","c","h">>, <<"B","e","a","c","h">>,
      <<"M","H","A">>, <<"m","h","a">>, <<"A","B">>, <<"TAB","NBSP">>,
      <<"-">>, <<" ","a","b"," ">>, <<"a","-","b">>, <<"b"," ","a","b">>,
      <<"a","n","i","m","e">>, <<"a","e_acute","b">>, <<"!","?">>,
      <<"e","a","c","h"," ","z","z">>, <<"a","b"," ","b">> }

Queries == (UNION { [1..n -> QueryChars] : n \in 0..MaxQueryLen }) \cup NamedQueries

\* lists of distinct records (ids are unique)
ItemLists ==
    UNION { { s \in [1..n -> Pool] :
                \A k1, k2 \in 1..n : k1 # k2 => s[k1].id # s[k2].id }
            : n \in 0..MaxRecords }

NullData == [isNull |-> TRUE, items |-> <<>>]

\* Arguments of the helper functions.  The argument undefined is read
\* through (str || ""), so it and the empty string are both <<>>.
MaxStrLen == 3

StrChars == {"a", "B", " ", "-", "U0301"}

StrCharsB == {"a", "b", " "}

Strings == UNION { [1..n -> StrChars] : n \in 0..MaxStrLen }

StringsB == UNION { [1..n -> StrCharsB] : n \in 0..MaxStrLen }

NamedPairs ==
    { << <<"S","p","i","d","e","r","-","M","a","n">>,
         <<"S","p","i","d","e","r"," ","M","a","n">> >>,
      << <<"A","m","e_acute","l","i","e">>, <<"a","m","e","l","i","e">> >>,
      << <<"k","i","t","t","e","n">>, <<"s","i","t","t","i","n","g">> >>,
      << <<>>, <<"a","b","c">> >>,
      << <<"a","b","c">>, <<>> >>,
      << <<"TAB","a","1","NBSP","TAB","CJK","2","!"," ">>, <<"a","1"," ","2">> >>,
      << <<"!","?","TAB">>, <<"NBSP">> >>,
      << <<"E_acute","u_uml","9">>, <<"e","U0301","U","U0308","9">> >> }

(***************************************************************************)
(* filteredReleases (App.tsx)                                              *)
(***************************************************************************)
\* the inner loop with the fuzzy threshold off by one (dist < 2)
RECURSIVE bestTokenMatch_strict(_, _, _)
bestTokenMatch_strict(qToken, titleTokens, best) ==
    IF titleTokens = <<>> THEN best
    ELSE LET tToken == Head(titleTokens)
             next == IF tToken = qToken THEN 10
                     ELSE IF startsWith(tToken, qToken) THEN Max(best, 5)
                     ELSE IF includes(tToken, qToken) THEN Max(best, 2)
                     ELSE IF getLevenshteinDistance(tToken, qToken) < 2
                          THEN Max(best, 4)
                          ELSE best
         IN bestTokenMatch_strict(qToken, Tail(titleTokens), next)

\* the inner loop adding up the weights of all titleTokens
RECURSIVE bestTokenMatch_sum(_, _, _)
bestTokenMatch_sum(qToken, titleTokens, best) ==
    IF titleTokens = <<>> THEN best
    ELSE LET tToken == Head(titleTokens)
             next == IF tToken = qToken THEN best + 10
                     ELSE IF startsWith(tToken, qToken) THEN best + 5
                     ELSE IF includes(tToken, qToken) THEN best + 2
                     ELSE IF getLevenshteinDistance(tToken, qToken) <= 2
                          THEN best + 4
                          ELSE best
         IN bestTokenMatch_sum(qToken, Tail(titleTokens), next)

\* the inner loop keeping the weight of the last title token only
RECURSIVE bestTokenMatch_lastOnly(_, _, _)
bestTokenMatch_lastOnly(qToken, titleTokens, best) ==
    IF titleTokens = <<>> THEN best
    ELSE LET tToken == Head(titleTokens)
             next == IF tToken = qToken THEN 10
                     ELSE IF startsWith(tToken, qToken) THEN 5
                     ELSE IF includes(tToken, qToken) THEN 2
                     ELSE IF getLevenshteinDistance(tToken, qToken) <= 2
                          THEN 4
                          ELSE 0
         IN bestTokenMatch_lastOnly(qToken, Tail(titleTokens), next)

\* the inner loop over titleTokens for one qToken
RECURSIVE bestTokenMatch(_, _, _)
bestTokenMatch(qToken, titleTokens, best) ==
    IF titleTokens = <<>> THEN best
    ELSE LET tToken == Head(titleTokens)
             next == IF tToken = qToken THEN 10
                     ELSE IF startsWith(tToken, qToken) THEN Max(best, 5)
                     ELSE IF includes(tToken, qToken) THEN Max(best, 2)
                     ELSE IF getLevenshteinDistance(tToken, qToken) <= 2
                          THEN Max(best, 4)
                          ELSE best
         IN bestTokenMatch(qToken, Tail(titleTokens), next)

\* the positions of the titleTokens at which the inner loop reaches its
\* else branch for qToken, i.e. calls getLevenshteinDistance(tToken, qToken)
levenshteinCalls(qToken, titleTokens) ==
    { k \in 1..Len(titleTokens) :
         /\ titleTokens[k] # qToken
         /\ ~startsWith(titleTokens[k], qToken)
         /\ ~includes(titleTokens[k], qToken) }

\* the outer loop: [tokenMatches, tokenScore] after all queryTokens
RECURSIVE tokenLoop(_, _, _, _)
tokenLoop(queryTokens, titleTokens, tokenMatches, tokenScore) ==
    IF queryTokens = <<>>
    THEN [tokenMatches |-> tokenMatches, tokenScore |-> tokenScore]
    ELSE LET best == bestTokenMatch(Head(queryTokens), titleTokens, 0)
         IN IF best > 0
            THEN tokenLoop(Tail(queryTokens), titleTokens,
                           tokenMatches + 1, tokenScore + best)
            ELSE tokenLoop(Tail(queryTokens), titleTokens,
                           tokenMatches, tokenScore)

\* the phrase tiers with the equality test widened to a prefix test
phraseScore_prefix(normTitle, normalizedQuery) ==
    IF startsWith(normTitle, normalizedQuery) THEN 100
    ELSE IF includes(normTitle, normalizedQuery) THEN 60
    ELSE 0

\* the phrase tests each adding its bonus (as in the part_000 revision)
phraseScore_cumulative(normTitle, normalizedQuery) ==
    (IF normTitle = normalizedQuery THEN 100 ELSE 0)
    + (IF startsWith(normTitle, normalizedQuery) THEN 80 ELSE 0)
    + (IF includes(normTitle, normalizedQuery) THEN 60 ELSE 0)

phraseScore(normTitle, normalizedQuery) ==
    IF normTitle = normalizedQuery THEN 100
    ELSE IF startsWith(normTitle, normalizedQuery) THEN 80
    ELSE IF includes(normTitle, normalizedQuery) THEN 60
    ELSE 0

acronym(titleTokens) == [k \in 1..Len(titleTokens) |-> titleTokens[k][1]]

\* the acronym bonus without the length test (as in the part_001 revision)
acronymScore_anyLength(titleTokens, normalizedQuery) ==
    IF acronym(titleTokens) = normalizedQuery THEN 30 ELSE 0

acronymScore(titleTokens, normalizedQuery) ==
    IF acronym(titleTokens) = normalizedQuery /\ Len(acronym(titleTokens)) > 1
    THEN 30 ELSE 0

\* the all-tokens bonus without the test for an empty token list
allTokensScore_unguarded(tokenMatches, queryTokens) ==
    IF tokenMatches = Len(queryTokens) THEN 40 ELSE 0

\* if (tokenMatches === queryTokens.length && queryTokens.length > 0)
allTokensScore(tokenMatches, queryTokens) ==
    IF tokenMatches = Len(queryTokens) /\ Len(queryTokens) > 0 THEN 40 ELSE 0

\* a metadata bonus counted once for the platform and once for the category
metadataScore_both(normPlatform, normCategory, normalizedQuery) ==
    (IF includes(normPlatform, normalizedQuery) THEN 20 ELSE 0)
    + (IF normCategory = normalizedQuery THEN 20 ELSE 0)

metadataScore(normPlatform, normCategory, normalizedQuery) ==
    IF includes(normPlatform, normalizedQuery) \/ normCategory = normalizedQuery
    THEN 20 ELSE 0

descriptionScore(normDesc, normalizedQuery) ==
    IF includes(normDesc, normalizedQuery) THEN 5 ELSE 0

CategoryName(c) ==
    CASE c = "Anime" -> <<"A","n","i","m","e">>
      [] c = "Movie" -> <<"M","o","v","i","e">>
      [] OTHER -> <<>>

\* the body of items.map(item => ...): every addend of the score of one item
signals(item, query) ==
    LET queryTokens     == tokenize(query)
        normTitle       == normalizeStr(item.title)
        normDesc        == normalizeStr(item.description)
        normPlatform    == normalizeStr(item.platform)
        normCategory    == normalizeStr(CategoryName(item.category))
        normalizedQuery == normalizeStr(query)
        titleTokens     == tokenize(item.title)
        loop            == tokenLoop(queryTokens, titleTokens, 0, 0)
    IN [phrase       |-> phraseScore(normTitle, normalizedQuery),
        tokenMatches |-> loop.tokenMatches,
        tokenScore   |-> loop.tokenScore,
        allTokens    |-> allTokensScore(loop.tokenMatches, queryTokens),
        acronym      |-> acronymScore(titleTokens, normalizedQuery),
        metadata     |-> metadataScore(normPlatform, normCategory, normalizedQuery),
        description  |-> descriptionScore(normDesc, normalizedQuery)]

\* the score of the part_000 revision's penalty for a record no term of
\* which matched, applied to the current addends
score_penalised(item, query) ==
    LET sig == signals(item, query)
    IN IF sig.tokenMatches = 0 /\ tokenize(query) # <<>> THEN -1
       ELSE sig.phrase + sig.allTokens + sig.tokenScore + sig.acronym
            + sig.metadata + sig.description

\* the score returned in { item, score }
score(item, query) ==
    LET sig == signals(item, query)
    IN sig.phrase + sig.allTokens + sig.tokenScore + sig.acronym
       + sig.metadata + sig.description

\* score of every record of the pool for every query, computed once
scoreOf == [p \in Pool \X Queries |-> score(p[1], p[2])] @@ <<>>

\* Array.prototype.sort((a, b) => b.score - a.score): stable, descending
\* an insertion that puts an element before its equals (unstable sort)
RECURSIVE sortInsert_unstable(_, _)
sortInsert_unstable(sorted, x) ==
    IF sorted = <<>> THEN <<x>>
    ELSE IF Head(sorted).score <= x.score THEN <<x>> \o sorted
    ELSE <<Head(sorted)>> \o sortInsert_unstable(Tail(sorted), x)

RECURSIVE sortInsert(_, _)
sortInsert(sorted, x) ==
    IF sorted = <<>> THEN <<x>>
    ELSE IF Head(sorted).score < x.score THEN <<x>> \o sorted
    ELSE <<Head(sorted)>> \o sortInsert(Tail(sorted), x)

RECURSIVE sortByScore(_)
sortByScore(list) ==
    IF list = <<>> THEN <<>>
    ELSE sortInsert(sortByScore(SubSeq(list, 1, Len(list) - 1)), list[Len(list)])

\* the filter with >= in place of >
keepScored_nonNegative(si) == si.score >= 0

keepScored(si) == si.score > 0

\* the category filter left out
categoryFilter_none(items, tab) == items

categoryFilter(items, tab) ==
    IF tab = "All" THEN items
    ELSE SelectSeq(items, LAMBDA item : item.category = tab)

(***************************************************************************)
(* filteredReleases, revision of src/unnamed/part_000                      *)
(***************************************************************************)
normalizeStr_part000(str) ==
    LET decomposed == Normalize_NFD(str)
        stripped   == SelectSeq(decomposed, LAMBDA c : c \notin CombiningMarks)
        lowered    == [k \in 1..Len(stripped) |-> toLowerCase(stripped[k])]
        spaced     == [k \in 1..Len(lowered) |->
                         IF IsLowerAlnum(lowered[k]) \/ lowered[k] \in WhiteSpace
                         THEN lowered[k] ELSE " "]
    IN trim(CollapseSpaces(spaced))

\* titleWords.reduce((minDist, word) => ..., 100)
RECURSIVE bestFuzzyMatch(_, _, _)
bestFuzzyMatch(term, titleWords, minDist) ==
    IF titleWords = <<>> THEN minDist
    ELSE LET dist == getLevenshteinDistance(term, Head(titleWords))
         IN bestFuzzyMatch(term, Tail(titleWords),
                           IF dist < minDist THEN dist ELSE minDist)

\* terms.forEach(term => ...): [score, termMatches] after all terms; norm
\* holds titleNorm, platformNorm, categoryNorm, descNorm and titleWords
RECURSIVE termLoop_part000(_, _, _, _)
termLoop_part000(terms, norm, sc, termMatches) ==
    IF terms = <<>> THEN [score |-> sc, termMatches |-> termMatches]
    ELSE LET term == Head(terms)
             allowedErrors == IF Len(term) > 4 THEN 2 ELSE 1
             gain == IF includes(norm.titleNorm, term) THEN 10
                     ELSE IF includes(norm.platformNorm, term)
                             \/ includes(norm.categoryNorm, term) THEN 5
                     ELSE IF includes(norm.descNorm, term) THEN 2
                     ELSE IF bestFuzzyMatch(term, norm.titleWords, 100)
                                <= allowedErrors
                          THEN 5
                          ELSE 0
         IN termLoop_part000(Tail(terms), norm, sc + gain,
                             IF gain > 0 THEN termMatches + 1 ELSE termMatches)

\* the three title tests, each adding its own bonus
phraseScore_part000(titleNorm, query) ==
    (IF titleNorm = query THEN 100 ELSE 0)
    + (IF startsWith(titleNorm, query) THEN 50 ELSE 0)
    + (IF includes(titleNorm, query) THEN 30 ELSE 0)

\* the body of result.map(item => ...) up to the penalty: every addend of
\* the score of one item
signals_part000(item, debouncedSearchQuery) ==
    LET query        == normalizeStr_part000(debouncedSearchQuery)
        terms        == SelectSeq(split(query), LAMBDA t : Len(t) > 0)
        titleNorm    == normalizeStr_part000(item.title)
        descNorm     == normalizeStr_part000(item.description)
        platformNorm == normalizeStr_part000(item.platform)
        categoryNorm == normalizeStr_part000(CategoryName(item.category))
        titleWords   == split(titleNorm)
        s4 == IF includes(platformNorm, query) \/ includes(categoryNorm, query)
              THEN 15 ELSE 0
        s5 == IF categoryNorm = query THEN 30 ELSE 0
        norm == [titleNorm |-> titleNorm, platformNorm |-> platformNorm,
                 categoryNorm |-> categoryNorm, descNorm |-> descNorm,
                 titleWords |-> titleWords]
        loop == termLoop_part000(terms, norm, 0, 0)
    IN [phrase      |-> phraseScore_part000(titleNorm, query),
        metadata    |-> s4 + s5,
        terms       |-> loop.score,
        termMatches |-> loop.termMatches,
        allTerms    |-> IF loop.termMatches = Len(terms) THEN 20 ELSE 0,
        penalised   |-> loop.termMatches = 0 /\ Len(terms) > 0]

score_part000(item, debouncedSearchQuery) ==
    LET sig == signals_part000(item, debouncedSearchQuery)
    IN IF sig.penalised THEN -1
       ELSE sig.phrase + sig.metadata + sig.terms + sig.allTerms

scoreOf_part000 ==
    [p \in Pool \X Queries |-> score_part000(p[1], p[2])] @@ <<>>

(***************************************************************************)
(* filteredReleases, first revision of src/unnamed/part_001                *)
(***************************************************************************)
\* item.title.split(' ').map(w => w[0]).join('').toLowerCase(); w[0] of an
\* empty piece is undefined, which join renders as the empty string
acronym_part001(title) ==
    LET words  == split(title)
        firsts == [k \in 1..Len(words) |->
                     IF words[k] = <<>> THEN <<>> ELSE <<words[k][1]>>]
        joined == join(firsts)
    IN [k \in 1..Len(joined) |-> toLowerCase(joined[k])]

score_part001(item, debouncedSearch_) ==
    LET query       == normalizeStr(debouncedSearch_)
        queryTokens == tokenize(debouncedSearch_)
        title       == normalizeStr(item.title)
        desc        == normalizeStr(item.description)
        platform    == normalizeStr(item.platform)
        s1 == IF title = query THEN 100
              ELSE IF startsWith(title, query) THEN 50
              ELSE IF includes(title, query) THEN 30
              ELSE 0
        titleMatches == Len(SelectSeq(queryTokens, LAMBDA t : includes(title, t)))
        s2 == IF acronym_part001(item.title) = query THEN 30 ELSE 0
        s3 == IF includes(platform, query) THEN 15 ELSE 0
        s4 == IF includes(desc, query) THEN 5 ELSE 0
        sc == s1 + titleMatches * 10 + s2 + s3 + s4
        dist == getLevenshteinDistance(query, title)
    IN IF sc < 20 /\ dist <= 3 THEN sc + (15 - dist * 3) ELSE sc

scoreOf_part001 ==
    [p \in Pool \X Queries |-> score_part001(p[1], p[2])] @@ <<>>

\* the comparators of the three sort options, as keys to sort ascending by
sortKey(r, option) ==
    CASE option = "time"       -> r.timestamp
      [] option = "rating"     -> 0 - r.rating
      [] option = "popularity" -> 0 - r.popularity

\* [...result].sort(compare): stable
RECURSIVE sortInsertKey(_, _, _)
sortInsertKey(sorted, x, option) ==
    IF sorted = <<>> THEN <<x>>
    ELSE IF sortKey(Head(sorted), option) > sortKey(x, option) THEN <<x>> \o sorted
    ELSE <<Head(sorted)>> \o sortInsertKey(Tail(sorted), x, option)

RECURSIVE sortByKey(_, _)
sortByKey(list, option) ==
    IF list = <<>> THEN <<>>
    ELSE sortInsertKey(sortByKey(SubSeq(list, 1, Len(list) - 1), option),
                       list[Len(list)], option)

sortBySortOption(result, option) ==
    IF option \in {"time", "rating", "popularity"}
    THEN sortByKey(result, option) ELSE result

(***************************************************************************)
(* State machine                                                           *)
(***************************************************************************)
SortOptions == {"time", "rating", "popularity"}

\* localStorage without the entry premiere_pulse_cache_v1
NoCache == [kind |-> "none"]

\* the useState initial values of AppContent that the ranker does not read
\* (no timer and no fetch is looked at while one pass of the ranker runs)
InitOther ==
    /\ searchQuery = <<>> /\ timers = {} /\ handler = 0 /\ sinceChange = 0
    /\ notifiedItems = {} /\ watchlistItems = {}
    /\ confirmModal = [isOpen |-> FALSE, itemId |-> "", title |-> <<>>]
    /\ loading = TRUE /\ error = "null" /\ cache = NoCache
    /\ inflight = {} /\ dataFetchedRef = FALSE

Init ==
    /\ InitOther
    /\ data \in {NullData} \cup { [isNull |-> FALSE, items |-> s] : s \in ItemLists }
    /\ activeTab \in Tabs
    /\ debouncedSearch \in Queries
    /\ scoredItems = <<>>
    /\ filteredReleases = <<>>
    /\ pc = "idle"
    /\ strA = <<>> /\ strB = <<>> /\ returned = <<>>

\* filter(si => si.score > 0).sort(...).map(si => si.item)
rankScored(scored) ==
    LET kept == sortByScore(SelectSeq(scored, keepScored))
    IN [k \in 1..Len(kept) |-> kept[k].item]

\* one evaluation of the useMemo callback of App.tsx
FilteredReleases ==
    /\ pc = "idle"
    /\ pc' = "App"
    /\ IF data.isNull
       THEN scoredItems' = <<>> /\ filteredReleases' = <<>>
       ELSE LET items == categoryFilter(data.items, activeTab)
            IN IF trim(debouncedSearch) # <<>>
               THEN LET scored == [k \in 1..Len(items) |->
                                     [item |-> items[k],
                                      score |-> scoreOf[<<items[k], debouncedSearch>>]]]
                    IN /\ scoredItems' = scored
                       /\ filteredReleases' = rankScored(scored)
               ELSE scoredItems' = <<>> /\ filteredReleases' = items
    /\ UNCHANGED <<data, activeTab, debouncedSearch, strA, strB, returned>>
    /\ UNCHANGED <<debounceVars, notifyVars, loadVars>>

\* one evaluation of the useMemo callback of the part_000 revision; its
\* releases state starts as [] and is never null
FilteredReleases_part000 ==
    /\ pc = "idle"
    /\ pc' = "part_000"
    /\ LET result == categoryFilter(data.items, activeTab)
       IN IF trim(debouncedSearch) # <<>>
          THEN LET scored == [k \in 1..Len(result) |->
                                [item |-> result[k],
                                 score |-> scoreOf_part000[<<result[k], debouncedSearch>>]]]
               IN /\ scoredItems' = scored
                  /\ filteredReleases' = rankScored(scored)
          ELSE scoredItems' = <<>> /\ filteredReleases' = result
    /\ UNCHANGED <<data, activeTab, debouncedSearch, strA, strB, returned>>
    /\ UNCHANGED <<debounceVars, notifyVars, loadVars>>

\* one evaluation of the useMemo callback of the first part_001 revision; the
\* sort option selected in the header is an input of the evaluation
FilteredReleases_part001 ==
    /\ pc = "idle"
    /\ pc' = "part_001"
    /\ LET result == categoryFilter(data.items, activeTab)
       IN IF trim(debouncedSearch) # <<>>
          THEN LET scored == [k \in 1..Len(result) |->
                                [item |-> result[k],
                                 score |-> scoreOf_part001[<<result[k], debouncedSearch>>]]]
               IN /\ scoredItems' = scored
                  /\ filteredReleases' = rankScored(scored)
          ELSE /\ scoredItems' = <<>>
               /\ \E sortOption \in SortOptions :
                     filteredReleases' = sortBySortOption(result, sortOption)
    /\ UNCHANGED <<data, activeTab, debouncedSearch, strA, strB, returned>>
    /\ UNCHANGED <<debounceVars, notifyVars, loadVars>>

Next ==
    \/ FilteredReleases
    \/ FilteredReleases_part000
    \/ FilteredReleases_part001

Spec == Init /\ [][Next]_vars

(***************************************************************************)
(* The helper functions on their own: one call of a helper on the          *)
(* arguments strA, strB                                                    *)
(***************************************************************************)
InitStr ==
    /\ InitOther
    /\ \E p \in (Strings \X StringsB) \cup NamedPairs : strA = p[1] /\ strB = p[2]
    /\ returned = <<>>
    /\ pc = "idle"
    /\ data = NullData /\ activeTab = "All" /\ debouncedSearch = <<>>
    /\ scoredItems = <<>> /\ filteredReleases = <<>>

NormalizeStr ==
    /\ pc = "idle"
    /\ pc' = "normalizeStr"
    /\ returned' = normalizeStr(strA)
    /\ UNCHANGED <<strA, strB, data, activeTab, debouncedSearch, scoredItems, filteredReleases>>
    /\ UNCHANGED <<debounceVars, notifyVars, loadVars>>

NormalizeStr_part000 ==
    /\ pc = "idle"
    /\ pc' = "normalizeStr_part000"
    /\ returned' = normalizeStr_part000(strA)
    /\ UNCHANGED <<strA, strB, data, activeTab, debouncedSearch, scoredItems, filteredReleases>>
    /\ UNCHANGED <<debounceVars, notifyVars, loadVars>>

Tokenize ==
    /\ pc = "idle"
    /\ pc' = "tokenize"
    /\ returned' = tokenize(strA)
    /\ UNCHANGED <<strA, strB, data, activeTab, debouncedSearch, scoredItems, filteredReleases>>
    /\ UNCHANGED <<debounceVars, notifyVars, loadVars>>

GetLevenshteinDistance ==
    /\ pc = "idle"
    /\ pc' = "getLevenshteinDistance"
    /\ returned' = getLevenshteinDistance(strA, strB)
    /\ UNCHANGED <<strA, strB, data, activeTab, debouncedSearch, scoredItems, filteredReleases>>
    /\ UNCHANGED <<debounceVars, notifyVars, loadVars>>

NextStr ==
    \/ NormalizeStr
    \/ NormalizeStr_part000
    \/ Tokenize
    \/ GetLevenshteinDistance

SpecStr == InitStr /\ [][NextStr]_vars

(***************************************************************************)
(* The search box and useDebounce(searchQuery, 300).  A state change, the  *)
(* render it causes and the effects of that render are one step: the       *)
(* cleanup of the previous effect and the new setTimeout run before any    *)
(* other task.  Time advances in steps of TickMs.                          *)
(***************************************************************************)
Delay == 300
TickMs == 100
MaxTimers == 3

Rec(id) == CHOOSE r \in Pool : r.id = id

SearchInputs == { <<>>, <<"a">>, <<"a","b">>, <<" ">> }

DebounceData == { NullData, [isNull |-> FALSE, items |-> <<Rec("r1"), Rec("r4"), Rec("r2")>>] }

\* the value of the useMemo callback for the dependencies [data, activeTab,
\* debouncedSearch]
useMemoFilteredReleases(d, tab, query) ==
    IF d.isNull THEN <<>>
    ELSE LET items == categoryFilter(d.items, tab)
         IN IF trim(query) # <<>>
            THEN rankScored([k \in 1..Len(items) |->
                               [item |-> items[k],
                                score |-> scoreOf[<<items[k], query>>]]])
            ELSE items

\* a cleanup that leaves the timer of the previous effect pending
clearTimeout_none(pending, id) == pending

\* clearTimeout(handler)
clearTimeout(pending, id) == { t \in pending : t.id # id }

\* an identifier no pending timer has
newTimerId(pending) == CHOOSE i \in 1..MaxTimers : \A t \in pending : t.id # i

\* an effect that starts no timer
setTimeout_none(pending, id, value) == pending

\* setTimeout(() => setDebouncedValue(value), delay)
setTimeout(pending, id, value) == pending \cup { [id |-> id, value |-> value, age |-> 0] }

\* the effect of useDebounce for a changed value: the cleanup of the effect
\* before it, then the new timer
UseDebounceEffect(value) ==
    LET cleared == clearTimeout(timers, handler)
    IN /\ Cardinality(cleared) < MaxTimers
       /\ handler' = newTimerId(cleared)
       /\ timers' = setTimeout(cleared, newTimerId(cleared), value)
       /\ sinceChange' = 0

\* the first render: useState(value) and the first effect
InitDebounce ==
    /\ searchQuery = <<>> /\ debouncedSearch = <<>>
    /\ handler = 1 /\ timers = setTimeout({}, 1, <<>>)
    /\ sinceChange = 0
    /\ activeTab = "All"
    /\ data \in DebounceData
    /\ filteredReleases = useMemoFilteredReleases(data, "All", <<>>)
    /\ scoredItems = <<>>
    /\ pc = "mounted"
    /\ strA = <<>> /\ strB = <<>> /\ returned = <<>>
    /\ notifiedItems = {} /\ watchlistItems = {}
    /\ confirmModal = [isOpen |-> FALSE, itemId |-> "", title |-> <<>>]
    /\ loading = FALSE /\ error = "null" /\ cache = NoCache
    /\ inflight = {} /\ dataFetchedRef = TRUE

\* onChange of the search input, and the two buttons that clear it
SetSearchQuery ==
    \E value \in SearchInputs :
        /\ value # searchQuery
        /\ searchQuery' = value
        /\ UseDebounceEffect(value)
        /\ pc' = "setSearchQuery"
        /\ UNCHANGED <<data, activeTab, debouncedSearch, scoredItems, filteredReleases>>
        /\ UNCHANGED <<strA, strB, returned, notifyVars, loadVars>>

\* a category change that leaves the text of the search box in place
HandleCategoryChange_keepQuery ==
    \E category \in Tabs :
        /\ activeTab' = category
        /\ filteredReleases' = useMemoFilteredReleases(data, category, debouncedSearch)
        /\ pc' = "handleCategoryChange"
        /\ UNCHANGED <<data, debouncedSearch, scoredItems, debounceVars>>
        /\ UNCHANGED <<strA, strB, returned, notifyVars, loadVars>>

\* handleCategoryChange(category): setActiveTab(category); setSearchQuery('')
HandleCategoryChange ==
    \E category \in Tabs :
        /\ activeTab' = category
        /\ searchQuery' = <<>>
        /\ IF searchQuery # <<>>
           THEN UseDebounceEffect(<<>>)
           ELSE UNCHANGED <<timers, handler, sinceChange>>
        /\ filteredReleases' = useMemoFilteredReleases(data, category, debouncedSearch)
        /\ pc' = "handleCategoryChange"
        /\ UNCHANGED <<data, debouncedSearch, scoredItems>>
        /\ UNCHANGED <<strA, strB, returned, notifyVars, loadVars>>

\* TickMs pass without any event being handled
Tick ==
    /\ \/ sinceChange < Delay
       \/ \E t \in timers : t.age < Delay
    /\ timers' = { [t EXCEPT !.age = IF t.age + TickMs > Delay THEN Delay ELSE t.age + TickMs]
                   : t \in timers }
    /\ sinceChange' = IF sinceChange + TickMs > Delay THEN Delay ELSE sinceChange + TickMs
    /\ pc' = "tick"
    /\ UNCHANGED <<searchQuery, handler>>
    /\ UNCHANGED <<data, activeTab, debouncedSearch, scoredItems, filteredReleases>>
    /\ UNCHANGED <<strA, strB, returned, notifyVars, loadVars>>

\* a timer that is due runs its callback: setDebouncedValue(value)
Timeout ==
    \E t \in timers :
        /\ t.age >= Delay
        /\ timers' = timers \ {t}
        /\ debouncedSearch' = t.value
        /\ filteredReleases' = useMemoFilteredReleases(data, activeTab, t.value)
        /\ pc' = "timeout"
        /\ UNCHANGED <<searchQuery, handler, sinceChange>>
        /\ UNCHANGED <<data, activeTab, scoredItems>>
        /\ UNCHANGED <<strA, strB, returned, notifyVars, loadVars>>

NextDebounce ==
    \/ SetSearchQuery
    \/ HandleCategoryChange
    \/ Tick
    \/ Timeout

SpecDebounce == InitDebounce /\ [][NextDebounce]_vars

\* the event loop runs a due timer, and time does not stop
SpecDebounceFair == SpecDebounce /\ WF_vars(Tick) /\ WF_vars(Timeout)

(***************************************************************************)
(* Reminders and watchlist: the handlers of AppContent the cards and the   *)
(* confirmation modal call.                                                *)
(***************************************************************************)
\* the ids of the records on screen
CardIds == {"r1", "r2", "r5"}

\* a handler that removes the id of a record that already has a reminder
toggleNotify_toggle(prev, id) ==
    IF id \in prev THEN prev \ {id} ELSE prev \cup {id}

\* the updater of handleToggleNotify: prev => newSet
toggleNotify(prev, id) ==
    IF id \in prev THEN prev ELSE prev \cup {id}

\* after the mount effect: both sets as saved in localStorage (or empty)
InitNotify ==
    /\ notifiedItems \in SUBSET CardIds
    /\ watchlistItems \in SUBSET CardIds
    /\ confirmModal = [isOpen |-> FALSE, itemId |-> "", title |-> <<>>]
    /\ pc = "mounted"
    /\ data = [isNull |-> FALSE, items |-> <<Rec("r1"), Rec("r2"), Rec("r5")>>]
    /\ activeTab = "All" /\ debouncedSearch = <<>>
    /\ scoredItems = <<>>
    /\ filteredReleases = <<Rec("r1"), Rec("r2"), Rec("r5")>>
    /\ strA = <<>> /\ strB = <<>> /\ returned = <<>>
    /\ searchQuery = <<>> /\ timers = {} /\ handler = 1 /\ sinceChange = Delay
    /\ loading = FALSE /\ error = "null" /\ cache = NoCache
    /\ inflight = {} /\ dataFetchedRef = TRUE

\* handleToggleNotify(id, title)
HandleToggleNotify ==
    \E id \in CardIds :
        /\ notifiedItems' = toggleNotify(notifiedItems, id)
        /\ pc' = "handleToggleNotify"
        /\ UNCHANGED <<watchlistItems, confirmModal>>
        /\ UNCHANGED <<data, activeTab, debouncedSearch, scoredItems, filteredReleases>>
        /\ UNCHANGED <<strA, strB, returned, debounceVars, loadVars>>

\* initRemoveNotify(id, title)
InitRemoveNotify ==
    \E id \in CardIds :
        /\ confirmModal' = [isOpen |-> TRUE, itemId |-> id, title |-> Rec(id).title]
        /\ pc' = "initRemoveNotify"
        /\ UNCHANGED <<notifiedItems, watchlistItems>>
        /\ UNCHANGED <<data, activeTab, debouncedSearch, scoredItems, filteredReleases>>
        /\ UNCHANGED <<strA, strB, returned, debounceVars, loadVars>>

\* ReleaseCard.handleNotifyClick: onRemoveNotify() for a record that has a
\* reminder, onToggleNotify() otherwise
HandleNotifyClick ==
    \E id \in CardIds :
        /\ IF id \in notifiedItems
           THEN /\ confirmModal' = [isOpen |-> TRUE, itemId |-> id, title |-> Rec(id).title]
                /\ UNCHANGED notifiedItems
           ELSE /\ notifiedItems' = toggleNotify(notifiedItems, id)
                /\ UNCHANGED confirmModal
        /\ pc' = "handleNotifyClick"
        /\ UNCHANGED watchlistItems
        /\ UNCHANGED <<data, activeTab, debouncedSearch, scoredItems, filteredReleases>>
        /\ UNCHANGED <<strA, strB, returned, debounceVars, loadVars>>

\* confirmRemoveNotify(), the onConfirm of the modal (rendered when isOpen)
ConfirmRemoveNotify ==
    /\ confirmModal.isOpen
    /\ notifiedItems' = notifiedItems \ {confirmModal.itemId}
    /\ confirmModal' = [confirmModal EXCEPT !.isOpen = FALSE]
    /\ pc' = "confirmRemoveNotify"
    /\ UNCHANGED watchlistItems
    /\ UNCHANGED <<data, activeTab, debouncedSearch, scoredItems, filteredReleases>>
    /\ UNCHANGED <<strA, strB, returned, debounceVars, loadVars>>

\* the onClose of the modal
CloseConfirmModal ==
    /\ confirmModal.isOpen
    /\ confirmModal' = [confirmModal EXCEPT !.isOpen = FALSE]
    /\ pc' = "onClose"
    /\ UNCHANGED <<notifiedItems, watchlistItems>>
    /\ UNCHANGED <<data, activeTab, debouncedSearch, scoredItems, filteredReleases>>
    /\ UNCHANGED <<strA, strB, returned, debounceVars, loadVars>>

\* handleToggleWatchlist(id)
HandleToggleWatchlist ==
    \E id \in CardIds :
        /\ watchlistItems' = IF id \in watchlistItems
                             THEN watchlistItems \ {id}
                             ELSE watchlistItems \cup {id}
        /\ pc' = "handleToggleWatchlist"
        /\ UNCHANGED <<notifiedItems, confirmModal>>
        /\ UNCHANGED <<data, activeTab, debouncedSearch, scoredItems, filteredReleases>>
        /\ UNCHANGED <<strA, strB, returned, debounceVars, loadVars>>

NextNotify ==
    \/ HandleToggleNotify
    \/ InitRemoveNotify
    \/ HandleNotifyClick
    \/ ConfirmRemoveNotify
    \/ CloseConfirmModal
    \/ HandleToggleWatchlist

SpecNotify == InitNotify /\ [][NextNotify]_vars

(***************************************************************************)
(* loadData: the cache entry of localStorage, the fetch of the daily       *)
(* releases and the three callers (mount effect, refresh button, retry     *)
(* button).  The part of loadData before the await is one step, the part   *)
(* after it another; error is "null" or the kind of the message set.       *)
(***************************************************************************)
MaxInflight == 2

\* what fetchDailyReleases can resolve to
Responses ==
    { [isNull |-> FALSE, items |-> <<Rec("r1")>>],
      [isNull |-> FALSE, items |-> <<Rec("r2"), Rec("r4")>>],
      [isNull |-> FALSE, items |-> <<Rec("r5")>>],
      [isNull |-> FALSE, items |-> <<>>] }

\* the kinds of rejection the catch block tells apart
Rejections == {"429", "failed"}

\* the entry of localStorage at the first render: absent, not parseable, or
\* { date, timestamp, data } with the date of today or of another day and a
\* timestamp less than REVALIDATE_WINDOW old ("fresh") or not ("stale");
\* an entry without data reads as one without items
CacheStates ==
    {NoCache, [kind |-> "corrupt"]}
    \cup [kind : {"entry"}, date : {"today", "yesterday"},
          age : {"fresh", "stale"}, data : Responses \cup {NullData}]

\* the else-if of the cache block: an entry of today with items
CacheHit(c) == c.kind = "entry" /\ c.date = "today" /\ Len(c.data.items) > 0

\* the part of loadData(forceRefresh) before the await: the values of the
\* state it leaves, whether it goes on to the fetch, and usingCache
LoadDataSync(forceRefresh) ==
    LET usingCache == ~forceRefresh /\ CacheHit(cache)
        fresh      == usingCache /\ cache.age = "fresh"
    IN [data       |-> IF usingCache THEN cache.data ELSE data,
        cache      |-> IF forceRefresh THEN cache
                       ELSE IF cache.kind = "corrupt" THEN NoCache
                       ELSE IF cache.kind = "entry" /\ cache.date # "today" THEN NoCache
                       ELSE cache,
        usingCache |-> usingCache,
        fetch      |-> ~fresh,
        loading    |-> IF fresh THEN FALSE
                       ELSE IF usingCache THEN loading
                       ELSE TRUE,
        error      |-> "null"]

\* an identifier for the invocation that starts a fetch
newInvocation == CHOOSE i \in 1..MaxInflight : \A f \in inflight : f.id # i

\* the content area of the render
Screen ==
    IF loading THEN "spinner"
    ELSE IF error # "null" THEN "error"
    ELSE IF Len(filteredReleases) = 0 THEN "empty"
    ELSE "cards"

InitLoad ==
    /\ data = NullData
    /\ loading = TRUE /\ error = "null"
    /\ cache \in CacheStates
    /\ inflight = {} /\ dataFetchedRef = FALSE
    /\ activeTab = "All" /\ debouncedSearch = <<>>
    /\ scoredItems = <<>> /\ filteredReleases = <<>>
    /\ pc = "render"
    /\ strA = <<>> /\ strB = <<>> /\ returned = <<>>
    /\ searchQuery = <<>> /\ timers = {} /\ handler = 1 /\ sinceChange = Delay
    /\ notifiedItems = {} /\ watchlistItems = {}
    /\ confirmModal = [isOpen |-> FALSE, itemId |-> "", title |-> <<>>]

\* the mount effect: loadData(false), once
Mount ==
    /\ ~dataFetchedRef
    /\ dataFetchedRef' = TRUE
    /\ LET r == LoadDataSync(FALSE)
       IN /\ Cardinality(inflight) < MaxInflight
          /\ data' = r.data /\ cache' = r.cache
          /\ loading' = r.loading /\ error' = r.error
          /\ inflight' = IF r.fetch
                         THEN inflight \cup {[id |-> newInvocation, usingCache |-> r.usingCache]}
                         ELSE inflight
          /\ filteredReleases' = useMemoFilteredReleases(r.data, activeTab, debouncedSearch)
    /\ pc' = "mount"
    /\ UNCHANGED <<activeTab, debouncedSearch, scoredItems>>
    /\ UNCHANGED <<strA, strB, returned, debounceVars, notifyVars>>

\* a refresh button that is not disabled while loading
RefreshClick_enabled ==
    /\ dataFetchedRef
    /\ LET r == LoadDataSync(TRUE)
       IN /\ Cardinality(inflight) < MaxInflight
          /\ data' = r.data /\ cache' = r.cache
          /\ loading' = r.loading /\ error' = r.error
          /\ inflight' = inflight \cup {[id |-> newInvocation, usingCache |-> r.usingCache]}
          /\ filteredReleases' = useMemoFilteredReleases(r.data, activeTab, debouncedSearch)
    /\ pc' = "refresh"
    /\ UNCHANGED <<dataFetchedRef, activeTab, debouncedSearch, scoredItems>>
    /\ UNCHANGED <<strA, strB, returned, debounceVars, notifyVars>>

\* the refresh button: onClick={() => loadData(true)} disabled={loading}
RefreshClick ==
    /\ dataFetchedRef
    /\ ~loading
    /\ LET r == LoadDataSync(TRUE)
       IN /\ Cardinality(inflight) < MaxInflight
          /\ data' = r.data /\ cache' = r.cache
          /\ loading' = r.loading /\ error' = r.error
          /\ inflight' = inflight \cup {[id |-> newInvocation, usingCache |-> r.usingCache]}
          /\ filteredReleases' = useMemoFilteredReleases(r.data, activeTab, debouncedSearch)
    /\ pc' = "refresh"
    /\ UNCHANGED <<dataFetchedRef, activeTab, debouncedSearch, scoredItems>>
    /\ UNCHANGED <<strA, strB, returned, debounceVars, notifyVars>>

\* the retry button of the error view: rendered when !loading and error
RetryClick ==
    /\ dataFetchedRef
    /\ Screen = "error"
    /\ LET r == LoadDataSync(TRUE)
       IN /\ Cardinality(inflight) < MaxInflight
          /\ data' = r.data /\ cache' = r.cache
          /\ loading' = r.loading /\ error' = r.error
          /\ inflight' = inflight \cup {[id |-> newInvocation, usingCache |-> r.usingCache]}
          /\ filteredReleases' = useMemoFilteredReleases(r.data, activeTab, debouncedSearch)
    /\ pc' = "retry"
    /\ UNCHANGED <<dataFetchedRef, activeTab, debouncedSearch, scoredItems>>
    /\ UNCHANGED <<strA, strB, returned, debounceVars, notifyVars>>

\* the fetch of an invocation resolves: try block after the await, finally
FetchResolved ==
    \E f \in inflight : \E response \in Responses :
        /\ inflight' = inflight \ {f}
        /\ data' = response
        /\ cache' = IF Len(response.items) > 0
                    THEN [kind |-> "entry", date |-> "today", age |-> "fresh", data |-> response]
                    ELSE cache
        /\ loading' = FALSE
        /\ filteredReleases' = useMemoFilteredReleases(response, activeTab, debouncedSearch)
        /\ pc' = "resolved"
        /\ UNCHANGED <<error, dataFetchedRef, activeTab, debouncedSearch, scoredItems>>
        /\ UNCHANGED <<strA, strB, returned, debounceVars, notifyVars>>

\* the fetch of an invocation rejects: catch block, finally
FetchRejected ==
    \E f \in inflight : \E err \in Rejections :
        /\ inflight' = inflight \ {f}
        /\ error' = IF ~f.usingCache THEN err ELSE error
        /\ loading' = FALSE
        /\ pc' = "rejected"
        /\ UNCHANGED <<data, cache, dataFetchedRef, filteredReleases>>
        /\ UNCHANGED <<activeTab, debouncedSearch, scoredItems>>
        /\ UNCHANGED <<strA, strB, returned, debounceVars, notifyVars>>

NextLoad ==
    \/ Mount
    \/ RefreshClick
    \/ RetryClick
    \/ FetchResolved
    \/ FetchRejected

SpecLoad == InitLoad /\ [][NextLoad]_vars

(***************************************************************************)
(* Properties                                                              *)
(***************************************************************************)
\* the query consists of white space only (possibly empty)
IsBlank(q) == \A k \in 1..Len(q) : q[k] \in WhiteSpace

\* a scoring pass of the App.tsx ranker has run
Scored == pc = "App" /\ ~data.isNull /\ ~IsBlank(debouncedSearch)

InTab(r) == activeTab = "All" \/ r.category = activeTab

\* position of a record in the input list
Pos(r) == CHOOSE m \in 1..Len(data.items) : data.items[m] = r

Elems(list) == { list[k] : k \in 1..Len(list) }

\* res is the input restricted to the active category, in input order
IsFilteredInput(res) ==
    /\ \A k \in 1..Len(res) : res[k] \in Elems(data.items) /\ InTab(res[k])
    /\ \A m \in 1..Len(data.items) :
          InTab(data.items[m]) => data.items[m] \in Elems(res)
    /\ \A k1, k2 \in 1..Len(res) : k1 < k2 => Pos(res[k1]) < Pos(res[k2])

\* the score recorded for a record in the last scoring pass
ScoreIn(r) == scoredItems[CHOOSE k \in 1..Len(scoredItems) : scoredItems[k].item = r].score

PosScored(r) == CHOOSE k \in 1..Len(scoredItems) : scoredItems[k].item = r

PosResult(r) == CHOOSE k \in 1..Len(filteredReleases) : filteredReleases[k] = r

\* first character of every word of a normalized string
RECURSIVE FirstLetters(_, _)
FirstLetters(nt, k) ==
    IF k > Len(nt) THEN <<>>
    ELSE (IF nt[k] # " " /\ (k = 1 \/ nt[k - 1] = " ") THEN <<nt[k]>> ELSE <<>>)
         \o FirstLetters(nt, k + 1)

\* what the ranking rules say about a record and a query, stated on the
\* normalized strings
RankFacts ==
    [p \in Pool \X Queries |->
        LET nt  == normalizeStr(p[1].title)
            nq  == normalizeStr(p[2])
            tt  == tokenize(p[1].title)
            qt  == tokenize(p[2])
            acr == FirstLetters(nt, 1)
            near(q) == \E k \in 1..Len(tt) : getLevenshteinDistance(tt[k], q) <= 2
            sub(q)  == \E k \in 1..Len(tt) : includes(tt[k], q)
            acrHit  == acr = nq /\ Len(acr) > 1
            metaHit == includes(normalizeStr(p[1].platform), nq)
                       \/ normalizeStr(CategoryName(p[1].category)) = nq
            descHit == includes(normalizeStr(p[1].description), nq)
            sig     == signals(p[1], p[2])
        IN [exact    |-> nt = nq,
            partial  |-> nt # nq /\ includes(nt, nq),
            emptyQ   |-> nq = <<>>,
            oneToken |-> Len(qt) = 1,
            nearHit  |-> Len(qt) = 1 /\ near(qt[1]),
            acrHit   |-> acrHit,
            acrLen   |-> Len(acr),
            acrEq    |-> acr = nq,
            others   |-> sig.phrase + sig.allTokens + sig.tokenScore
                         + sig.metadata + sig.description,
            bonus    |-> (IF acrHit THEN 30 ELSE 0) + (IF metaHit THEN 20 ELSE 0)
                         + (IF descHit THEN 5 ELSE 0),
            noSignal |-> /\ ~includes(nt, nq)
                         /\ \A k \in 1..Len(qt) : ~sub(qt[k]) /\ ~near(qt[k])
                         /\ acr # nq
                         /\ ~metaHit
                         /\ ~descHit]] @@ <<>>

Fact(r) == RankFacts[<<r, debouncedSearch>>]

\* C1: with an empty or white-space-only query no scoring pass runs and the
\* result is the category-filtered input, same members in the same order
C1_EmptyQueryIdentity ==
    (pc = "App" /\ IsBlank(debouncedSearch))
        => scoredItems = <<>> /\ IsFilteredInput(filteredReleases)

C1_Witness ==
    /\ pc = "App" /\ debouncedSearch # <<>> /\ IsBlank(debouncedSearch)
    /\ activeTab # "All" /\ Len(data.items) = 2 /\ Len(filteredReleases) = 1

\* C2: after a scoring pass the result holds exactly the records of score > 0,
\* in descending score order, records of equal score in their input order
C2_FilterAndStableSort ==
    Scored =>
        /\ Elems(filteredReleases) =
              { scoredItems[k].item : k \in { n \in 1..Len(scoredItems) :
                                                scoredItems[n].score > 0 } }
        /\ \A k1, k2 \in 1..Len(filteredReleases) : k1 < k2 =>
              LET a == filteredReleases[k1]
                  b == filteredReleases[k2]
              IN /\ a # b
                 /\ ScoreIn(a) >= ScoreIn(b)
                 /\ ScoreIn(a) = ScoreIn(b) => PosScored(a) < PosScored(b)

C2_Witness ==
    /\ Scored /\ normalizeStr(debouncedSearch) # <<>>
    /\ Len(scoredItems) = 2 /\ Len(filteredReleases) = 2
    /\ scoredItems[1].score = scoredItems[2].score

\* C3: a non-empty query that normalizes to the empty string gives the
\* category-filtered input, no record dropped or moved
C3_StrippedQueryIdentity ==
    (pc = "App" /\ debouncedSearch # <<>> /\ normalizeStr(debouncedSearch) = <<>>)
        => IsFilteredInput(filteredReleases)

\* C4: every returned record is an input record, none is returned twice, and
\* under a category other than "All" every returned record has that category
C4_ResultFromInput ==
    pc = "App" =>
        /\ \A k \in 1..Len(filteredReleases) :
              /\ filteredReleases[k] \in Elems(data.items)
              /\ activeTab # "All" => filteredReleases[k].category = activeTab
        /\ \A k1, k2 \in 1..Len(filteredReleases) :
              k1 # k2 => filteredReleases[k1] # filteredReleases[k2]
        /\ \A k \in 1..Len(scoredItems) : InTab(scoredItems[k].item)

C4_Witness ==
    /\ Scored /\ activeTab # "All" /\ Len(data.items) = 2
    /\ Len(scoredItems) = 1 /\ Len(filteredReleases) = 1

\* C5 as stated: a record whose normalized title equals the normalized query
\* comes before every record whose title only starts with or contains it
C5_ExactBeforePartial ==
    Scored =>
        \A e, q \in Elems(scoredItems) :
            (Fact(e.item).exact /\ Fact(q.item).partial)
                => /\ e.item \in Elems(filteredReleases)
                   /\ q.item \in Elems(filteredReleases)
                   /\ PosResult(e.item) < PosResult(q.item)

\* C5 amended: ... before every such record whose acronym, metadata and
\* description bonuses exceed those of the exact record by less than 20
C5_ExactBeforePartialBonus ==
    Scored =>
        \A e, q \in Elems(scoredItems) :
            (/\ Fact(e.item).exact /\ Fact(q.item).partial
             /\ Fact(q.item).bonus - Fact(e.item).bonus < 20)
                => /\ e.item \in Elems(filteredReleases)
                   /\ q.item \in Elems(filteredReleases)
                   /\ PosResult(e.item) < PosResult(q.item)

C5_Witness ==
    /\ Scored /\ Len(scoredItems) = 2
    /\ Fact(scoredItems[1].item).partial /\ Fact(scoredItems[2].item).exact
    /\ ~Fact(scoredItems[1].item).emptyQ
    /\ Fact(scoredItems[1].item).bonus > Fact(scoredItems[2].item).bonus
    /\ filteredReleases = <<scoredItems[2].item, scoredItems[1].item>>

\* C6: a record with a title token within edit distance 2 of the single
\* query token has a positive score and is in the result
C6_TypoTolerance ==
    Scored =>
        \A k \in 1..Len(scoredItems) :
            Fact(scoredItems[k].item).nearHit
                => /\ scoredItems[k].score > 0
                   /\ scoredItems[k].item \in Elems(filteredReleases)

C6_Witness ==
    /\ Scored /\ debouncedSearch = <<"B","e","a","c","h">>
    /\ \E k \in 1..Len(scoredItems) :
          /\ scoredItems[k].item.id = "r5"
          /\ Fact(scoredItems[k].item).nearHit
          /\ scoredItems[k].score = 44
          /\ scoredItems[k].item \in Elems(filteredReleases)

\* C7: under a query with a non-empty normalized form a record for which no
\* signal fires is excluded; if that is every record the result is empty
C7_NonMatchExclusion ==
    Scored =>
        /\ \A k \in 1..Len(scoredItems) :
              (~Fact(scoredItems[k].item).emptyQ /\ Fact(scoredItems[k].item).noSignal)
                  => scoredItems[k].item \notin Elems(filteredReleases)
        /\ (/\ normalizeStr(debouncedSearch) # <<>>
            /\ \A k \in 1..Len(scoredItems) : Fact(scoredItems[k].item).noSignal)
              => filteredReleases = <<>>

C7_Witness ==
    /\ Scored /\ Len(scoredItems) = 2 /\ normalizeStr(debouncedSearch) # <<>>
    /\ \A k \in 1..Len(scoredItems) : Fact(scoredItems[k].item).noSignal
    /\ filteredReleases = <<>>

\* C8: the acronym (first character of every title token) adds exactly 30
\* when it equals the normalized query and is longer than one character, and
\* nothing otherwise; "MHA" in any case finds "My Hero Academia"
C8_AcronymMatch ==
    Scored =>
        \A k \in 1..Len(scoredItems) :
            LET it == scoredItems[k].item
            IN /\ scoredItems[k].score - Fact(it).others
                     = (IF Fact(it).acrEq /\ Fact(it).acrLen > 1 THEN 30 ELSE 0)
               /\ Fact(it).acrHit
                     => scoredItems[k].score >= 30 /\ it \in Elems(filteredReleases)

C8_Witness ==
    /\ Scored /\ debouncedSearch = <<"M","H","A">>
    /\ \E k \in 1..Len(scoredItems) :
          /\ scoredItems[k].item.id = "r7"
          /\ Fact(scoredItems[k].item).acrHit
          /\ scoredItems[k].score = 74
          /\ scoredItems[k].item \in Elems(filteredReleases)

\* C9 as stated: no revision of the ranker assigns a negative score
C9_ScoreNonNegative ==
    \A k \in 1..Len(scoredItems) : scoredItems[k].score >= 0

\* C9 amended: the rankers of App.tsx and of the first part_001 revision
\* assign natural numbers; the part_000 revision assigns a natural number or
\* -1, and a record with -1 is not in the result
C9_ScoreNonNegativeButPart000 ==
    \A k \in 1..Len(scoredItems) :
        /\ pc \in {"App", "part_001"} => scoredItems[k].score \in Nat
        /\ pc = "part_000" =>
              /\ scoredItems[k].score \in Nat \cup {-1}
              /\ scoredItems[k].score = -1
                    => scoredItems[k].item \notin Elems(filteredReleases)

C9_Witness ==
    /\ pc = "part_000" /\ Len(scoredItems) = 2
    /\ scoredItems[1].score = -1 /\ scoredItems[2].score > 0
    /\ filteredReleases = <<scoredItems[2].item>>

(***************************************************************************)
(* Properties of the helper functions                                      *)
(***************************************************************************)
AsciiAlnum ==
    {UpperLetters[k] : k \in 1..26} \cup {LowerLetters[k] : k \in 1..26} \cup Digits

LowerAlnum == {LowerLetters[k] : k \in 1..26} \cup Digits

\* C11: the string returned by normalizeStr holds lower-case ASCII letters,
\* digits and spaces only, does not start or end with a space and has no two
\* spaces in a row
C11_NormalizedShape ==
    pc = "normalizeStr" =>
        /\ \A k \in 1..Len(returned) : returned[k] \in LowerAlnum \cup {" "}
        /\ returned # <<>> => returned[1] # " " /\ returned[Len(returned)] # " "
        /\ \A k \in 1..(Len(returned) - 1) :
              ~(returned[k] = " " /\ returned[k + 1] = " ")

C11_Witness ==
    /\ pc = "normalizeStr"
    /\ strA = <<"TAB","a","1","NBSP","TAB","CJK","2","!"," ">>
    /\ returned = <<"a","1"," ","2">>

\* C12: normalizing a normalized string returns it unchanged
C12_NormalizeIdempotent ==
    pc = "normalizeStr" => normalizeStr(returned) = returned

C12_Witness ==
    /\ pc = "normalizeStr"
    /\ strA = <<"S","p","i","d","e","r","-","M","a","n">>
    /\ returned = <<"s","p","i","d","e","r"," ","m","a","n">>
    /\ normalizeStr(returned) = returned

\* the maximal runs of ASCII letters and digits of a string, in lower case
AlnumRuns(s) ==
    LET in(k)     == s[k] \in AsciiAlnum
        starts    == {k \in 1..Len(s) : in(k) /\ (k = 1 \/ ~in(k - 1))}
        ends      == {k \in 1..Len(s) : in(k) /\ (k = Len(s) \/ ~in(k + 1))}
        nth(S, m) == CHOOSE k \in S : Cardinality({j \in S : j <= k}) = m
    IN [m \in 1..Cardinality(starts) |->
          LET run == SubSeq(s, nth(starts, m), nth(ends, m))
          IN [k \in 1..Len(run) |-> toLowerCase(run[k])]]

\* a string after canonical decomposition and removal of the combining marks
WithoutMarks(s) == SelectSeq(Normalize_NFD(s), LAMBDA c : c \notin CombiningMarks)

\* the normalizer that produced `returned`, applied to another string
SameNormalizer(s) ==
    IF pc = "normalizeStr" THEN normalizeStr(s) ELSE normalizeStr_part000(s)

\* C13 as stated: two strings with the same runs of letters and digits, up to
\* case, whatever other characters stand between the runs, normalize to the
\* same string
C13_SeparatorEquivalence ==
    (pc \in {"normalizeStr", "normalizeStr_part000"} /\ AlnumRuns(strA) = AlnumRuns(strB))
        => returned = SameNormalizer(strB)

\* C13 amended: combining marks are removed, not turned into separators; two
\* strings with the same runs of letters and digits once decomposed and
\* stripped of their marks normalize to the same string, and "Spider-Man"
\* and "Spider Man" both give "spider man"
C13_SeparatorEquivalenceStripped ==
    /\ (/\ pc \in {"normalizeStr", "normalizeStr_part000"}
        /\ AlnumRuns(WithoutMarks(strA)) = AlnumRuns(WithoutMarks(strB)))
          => returned = SameNormalizer(strB)
    /\ (/\ pc \in {"normalizeStr", "normalizeStr_part000"}
        /\ strA = <<"S","p","i","d","e","r","-","M","a","n">>)
          => returned = <<"s","p","i","d","e","r"," ","m","a","n">>

C13_Witness ==
    /\ pc = "normalizeStr_part000"
    /\ strA = <<"S","p","i","d","e","r","-","M","a","n">>
    /\ strB = <<"S","p","i","d","e","r"," ","M","a","n">>
    /\ AlnumRuns(WithoutMarks(strA)) = AlnumRuns(WithoutMarks(strB))
    /\ returned = normalizeStr_part000(strB)

\* C14: tokenize returns no empty token, and returns no token at all for a
\* string that normalizes to the empty string
C14_NoEmptyToken ==
    pc = "tokenize" =>
        /\ \A k \in 1..Len(returned) : Len(returned[k]) >= 1
        /\ normalizeStr(strA) = <<>> => returned = <<>>

C14_Witness ==
    /\ pc = "tokenize"
    /\ strA = <<"!","?","TAB">>
    /\ normalizeStr(strA) = <<>>
    /\ returned = <<>>

\* The unit-cost edit distance, by its defining recurrence.  D(i, j), the
\* distance between the first i characters of a and the first j characters
\* of b, is j for i = 0, i for j = 0, and otherwise the cheapest of deleting
\* a[i] (D(i-1, j) + 1), inserting b[j] (D(i, j-1) + 1) and keeping or
\* substituting a[i] for b[j] (D(i-1, j-1) + 0 or 1).
\* EditRow extends row = <<D(i,0), ..., D(i,j-1)>> to <<D(i,0), ..., D(i,Len(b))>>
\* from prev = <<D(i-1,0), ..., D(i-1,Len(b))>> and c = a[i].
RECURSIVE EditRow(_, _, _, _)
EditRow(prev, row, c, b) ==
    LET j == Len(row)
    IN IF j > Len(b) THEN row
       ELSE EditRow(prev,
                    Append(row, Min(prev[j + 1] + 1,
                                    Min(row[j] + 1,
                                        prev[j] + (IF c = b[j] THEN 0 ELSE 1)))),
                    c, b)

\* EditRows extends rows = <<D(0, .), ..., D(i-1, .)>> to all Len(a) + 1 rows
RECURSIVE EditRows(_, _, _)
EditRows(rows, a, b) ==
    LET i == Len(rows)
    IN IF i > Len(a) THEN rows
       ELSE EditRows(Append(rows, EditRow(rows[i], <<i>>, a[i], b)), a, b)

EditDistance(a, b) ==
    EditRows(<< [j \in 1..(Len(b) + 1) |-> j - 1] >>, a, b)[Len(a) + 1][Len(b) + 1]

\* C15: getLevenshteinDistance returns the unit-cost edit distance; the
\* distance from or to the empty string is the length of the other string,
\* and "kitten" and "sitting" are 3 apart
C15_StandardDistance ==
    pc = "getLevenshteinDistance" =>
        /\ returned = EditDistance(strA, strB)
        /\ strA = <<>> => returned = Len(strB)
        /\ strB = <<>> => returned = Len(strA)
        /\ (strA = <<"k","i","t","t","e","n">> /\ strB = <<"s","i","t","t","i","n","g">>)
              => returned = 3

C15_Witness ==
    /\ pc = "getLevenshteinDistance"
    /\ strA = <<"k","i","t","t","e","n">>
    /\ strB = <<"s","i","t","t","i","n","g">>
    /\ returned = 3

\* C16: the distance from strA to strB is the distance from strB to strA
C16_DistanceSymmetric ==
    pc = "getLevenshteinDistance" => returned = getLevenshteinDistance(strB, strA)

C16_Witness ==
    /\ pc = "getLevenshteinDistance"
    /\ Len(strA) = 3 /\ Len(strB) = 1
    /\ returned = 3
    /\ getLevenshteinDistance(strB, strA) = 3

(***************************************************************************)
(* Properties of the score                                                 *)
(***************************************************************************)
\* p is an initial segment of s
IsPrefix(p, s) == Len(p) <= Len(s) /\ \A k \in 1..Len(p) : s[k] = p[k]

\* p occurs in s
IsSubstring(p, s) ==
    \E off \in 0..(Len(s) - Len(p)) : \A k \in 1..Len(p) : s[off + k] = p[k]

\* the quality of one (title token, query token) pair
PairWeight(t, q) ==
    IF t = q THEN 10
    ELSE IF IsPrefix(q, t) THEN 5
    ELSE IF IsSubstring(q, t) THEN 2
    ELSE IF EditDistance(t, q) <= 2 THEN 4
    ELSE 0

\* the highest pair weight of a query token over the title tokens
BestWeight(tt, q) ==
    LET ws == {PairWeight(tt[k], q) : k \in 1..Len(tt)} \cup {0}
    IN CHOOSE w \in ws : \A v \in ws : v <= w

RECURSIVE SumOver(_, _)
SumOver(f, n) == IF n = 0 THEN 0 ELSE f[n] + SumOver(f, n - 1)

\* what the scoring rules give for a record and a query, each rule stated on
\* the normalized strings, next to the other addends of the computed score
SignalFacts ==
    [p \in Pool \X Queries |->
        LET nt  == normalizeStr(p[1].title)
            nq  == normalizeStr(p[2])
            tt  == tokenize(p[1].title)
            qt  == tokenize(p[2])
            np  == normalizeStr(p[1].platform)
            nc  == normalizeStr(CategoryName(p[1].category))
            sig == signals(p[1], p[2])
            nt0 == normalizeStr_part000(p[1].title)
            nq0 == normalizeStr_part000(p[2])
            sg0 == signals_part000(p[1], p[2])
            best == [k \in 1..Len(qt) |-> BestWeight(tt, qt[k])]
        IN [exact      |-> nt = nq,
            prefix     |-> IsPrefix(nq, nt),
            contains   |-> IsSubstring(nq, nt),
            notPhrase  |-> sig.allTokens + sig.tokenScore + sig.acronym
                           + sig.metadata + sig.description,
            exact0     |-> nt0 = nq0,
            prefix0    |-> IsPrefix(nq0, nt0),
            contains0  |-> IsSubstring(nq0, nt0),
            notPhrase0 |-> sg0.metadata + sg0.terms + sg0.allTerms,
            penalised0 |-> sg0.penalised,
            nTokens    |-> Len(qt),
            nTitle     |-> Len(tt),
            best       |-> best,
            coverage   |-> SumOver(best, Len(qt)),
            notTokens  |-> sig.phrase + sig.allTokens + sig.acronym
                           + sig.metadata + sig.description,
            notAll     |-> sig.phrase + sig.tokenScore + sig.acronym
                           + sig.metadata + sig.description,
            platHit    |-> IsSubstring(nq, np),
            catHit     |-> nc = nq,
            notMeta    |-> sig.phrase + sig.allTokens + sig.tokenScore
                           + sig.acronym + sig.description,
            same       |-> <<nt, np, normalizeStr(p[1].description)>>,
            descHit    |-> IsSubstring(nq, normalizeStr(p[1].description)),
            notDesc    |-> sig.phrase + sig.allTokens + sig.tokenScore
                           + sig.acronym + sig.metadata,
            titleHit   |-> \/ nt = nq \/ IsPrefix(nq, nt) \/ IsSubstring(nq, nt)
                           \/ \E k \in 1..Len(qt) : best[k] > 0]] @@ <<>>

SFact(r) == SignalFacts[<<r, debouncedSearch>>]

\* the tier the title reaches: equal, else prefix, else substring, else none
Tier(f) ==
    IF f.exact THEN 100 ELSE IF f.prefix THEN 80 ELSE IF f.contains THEN 60 ELSE 0

\* C17 as stated: in the revisions of App.tsx and part_000 at most one of
\* the three phrase bonuses is part of a score
C17_PhraseTiersExclusive ==
    \A k \in 1..Len(scoredItems) :
        LET f == SFact(scoredItems[k].item)
        IN /\ pc = "App" => scoredItems[k].score - f.notPhrase = Tier(f)
           /\ (pc = "part_000" /\ ~f.penalised0)
                 => scoredItems[k].score - f.notPhrase0 \in {0, 30, 50, 100}

\* C17 amended: App.tsx adds the bonus of the highest tier only (100, 80 or
\* 60); part_000 adds the bonus of every test that holds (100, 50 and 30)
C17_PhraseTiersExclusiveInApp ==
    \A k \in 1..Len(scoredItems) :
        LET f == SFact(scoredItems[k].item)
        IN /\ pc = "App" =>
                /\ scoredItems[k].score - f.notPhrase = Tier(f)
                /\ Tier(f) \in {0, 60, 80, 100}
           /\ (pc = "part_000" /\ ~f.penalised0) =>
                scoredItems[k].score - f.notPhrase0
                    = (IF f.exact0 THEN 100 ELSE 0) + (IF f.prefix0 THEN 50 ELSE 0)
                      + (IF f.contains0 THEN 30 ELSE 0)

C17_Witness ==
    /\ pc = "App" /\ Len(scoredItems) = 2
    /\ normalizeStr(debouncedSearch) # <<>>
    /\ SFact(scoredItems[1].item).exact
    /\ scoredItems[1].score - SFact(scoredItems[1].item).notPhrase = 100
    /\ ~SFact(scoredItems[2].item).exact /\ SFact(scoredItems[2].item).prefix
    /\ scoredItems[2].score - SFact(scoredItems[2].item).notPhrase = 80

\* C18: the token part of a score is the sum, over the query tokens, of the
\* highest weight the token reaches against any one title token, the weight
\* of a pair being 10 (equal), else 5 (prefix), else 2 (substring), else 4
\* (edit distance at most 2), else 0
C18_TokenCoverage ==
    pc = "App" =>
        \A k \in 1..Len(scoredItems) :
            LET f == SFact(scoredItems[k].item)
            IN /\ scoredItems[k].score - f.notTokens = f.coverage
               /\ \A n \in 1..f.nTokens : f.best[n] \in {0, 2, 4, 5, 10}

C18_Witness ==
    /\ pc = "App" /\ debouncedSearch = <<"a","-","b">>
    /\ \E k \in 1..Len(scoredItems) :
          /\ scoredItems[k].item.id = "r2"
          /\ SFact(scoredItems[k].item).nTitle = 2
          /\ SFact(scoredItems[k].item).best = <<5, 10>>
          /\ scoredItems[k].score - SFact(scoredItems[k].item).notTokens = 15

\* C19: the all-tokens bonus of 40 is part of a score exactly when the query
\* has at least one token and every query token has a nonzero best weight
\* against the title tokens; otherwise nothing is added
C19_AllTokensBonus ==
    pc = "App" =>
        \A k \in 1..Len(scoredItems) :
            LET f == SFact(scoredItems[k].item)
            IN scoredItems[k].score - f.notAll
                  = IF f.nTokens > 0 /\ \A n \in 1..f.nTokens : f.best[n] > 0
                    THEN 40 ELSE 0

C19_Witness ==
    /\ pc = "App"
    /\ \E k \in 1..Len(scoredItems) :
          LET f == SFact(scoredItems[k].item)
          IN /\ f.nTokens = 2
             /\ \A n \in 1..f.nTokens : f.best[n] > 0
             /\ scoredItems[k].score - f.notAll = 40

\* C20 as stated: the metadata bonus is 20, added once, and a record whose
\* category equals the query scores strictly higher than a record with the
\* same title, platform and description whose category does not
C20_MetadataSingleBonus ==
    pc = "App" =>
        /\ \A k \in 1..Len(scoredItems) :
              LET f == SFact(scoredItems[k].item)
              IN scoredItems[k].score - f.notMeta
                    = IF f.platHit \/ f.catHit THEN 20 ELSE 0
        /\ \A j, k \in 1..Len(scoredItems) :
              LET f == SFact(scoredItems[j].item)
                  g == SFact(scoredItems[k].item)
              IN (f.same = g.same /\ f.catHit /\ ~g.catHit)
                    => scoredItems[j].score > scoredItems[k].score

\* C20 amended: the metadata bonus is 20, added once; the record whose
\* category equals the query scores strictly higher (by 20) than the
\* otherwise identical record when their platform does not contain the query
C20_MetadataSingleBonusNoOtherField ==
    pc = "App" =>
        /\ \A k \in 1..Len(scoredItems) :
              LET f == SFact(scoredItems[k].item)
              IN scoredItems[k].score - f.notMeta
                    = IF f.platHit \/ f.catHit THEN 20 ELSE 0
        /\ \A j, k \in 1..Len(scoredItems) :
              LET f == SFact(scoredItems[j].item)
                  g == SFact(scoredItems[k].item)
              IN (f.same = g.same /\ f.catHit /\ ~g.catHit /\ ~g.platHit)
                    => scoredItems[j].score = scoredItems[k].score + 20

C20_Witness ==
    /\ pc = "App"
    /\ normalizeStr(debouncedSearch) = <<"a","n","i","m","e">>
    /\ \E j, k \in 1..Len(scoredItems) :
          LET f == SFact(scoredItems[j].item)
              g == SFact(scoredItems[k].item)
          IN /\ scoredItems[j].item.category = "Anime"
             /\ scoredItems[k].item.category = "Movie"
             /\ f.same = g.same /\ f.catHit /\ ~g.catHit /\ ~g.platHit
             /\ scoredItems[j].score = scoredItems[k].score + 20

\* C21: the description bonus is 5, added when the normalized description
\* contains the normalized query, and no record whose only signal is the
\* description stands in the result before a record that matched the query
\* through its title (a phrase tier or a token weight)
C21_DescriptionBelowTitle ==
    (pc = "App" /\ scoredItems # <<>>) =>
        /\ \A k \in 1..Len(scoredItems) :
              LET f == SFact(scoredItems[k].item)
              IN scoredItems[k].score - f.notDesc = IF f.descHit THEN 5 ELSE 0
        /\ \A i, j \in 1..Len(filteredReleases) :
              LET f == SFact(filteredReleases[i])
                  g == SFact(filteredReleases[j])
              IN (f.descHit /\ f.notDesc = 0 /\ g.titleHit) => ~(i < j)

\* C22: for a non-empty query (one that is not empty after normalization
\* either) a record whose title normalizes to the empty string has score 0
\* and is not part of the result
C22_EmptyTitleScoresZero ==
    (pc = "App" /\ ~data.isNull /\ normalizeStr(debouncedSearch) # <<>>) =>
        \A k \in 1..Len(scoredItems) :
            normalizeStr(scoredItems[k].item.title) = <<>> =>
                /\ scoredItems[k].score = 0
                /\ \A i \in 1..Len(filteredReleases) :
                      filteredReleases[i].id # scoredItems[k].item.id

\* C23: while a record is scored, the edit distance is not computed for a
\* query token against a title token that comes after a title token which
\* the query token equals, starts or is contained in
C23_FuzzyShortCircuit ==
    pc = "App" =>
        \A k \in 1..Len(scoredItems) :
            LET titleTokens == tokenize(scoredItems[k].item.title)
                queryTokens == tokenize(debouncedSearch)
            IN \A n \in 1..Len(queryTokens) :
                  \A c \in levenshteinCalls(queryTokens[n], titleTokens) :
                      \A j \in 1..(c - 1) :
                          ~ \/ IsPrefix(queryTokens[n], titleTokens[j])
                            \/ IsSubstring(queryTokens[n], titleTokens[j])

\* C26: when the normalized title equals, starts with or contains the
\* non-empty normalized query, every query token is contained in one title
\* token and has a best weight of at least 2, the all-tokens bonus is part
\* of the score, and the score is at least 60 + 40 + 2 * (number of tokens)
C26_PhraseImpliesAllTokens ==
    pc = "App" =>
        \A k \in 1..Len(scoredItems) :
            LET f == SFact(scoredItems[k].item)
                titleTokens == tokenize(scoredItems[k].item.title)
                queryTokens == tokenize(debouncedSearch)
            IN (Tier(f) > 0 /\ normalizeStr(debouncedSearch) # <<>>) =>
                  /\ \A n \in 1..Len(queryTokens) :
                        /\ \E m \in 1..Len(titleTokens) :
                              IsSubstring(queryTokens[n], titleTokens[m])
                        /\ f.best[n] >= 2
                  /\ scoredItems[k].score - f.notAll = 40
                  /\ scoredItems[k].score >= 60 + 40 + 2 * Len(queryTokens)

C26_Witness ==
    /\ pc = "App" /\ debouncedSearch = <<"b">>
    /\ \E k \in 1..Len(scoredItems) :
          /\ scoredItems[k].item.id = "r1"
          /\ Tier(SFact(scoredItems[k].item)) = 60
          /\ SFact(scoredItems[k].item).best = <<2>>
          /\ scoredItems[k].score = 102

(***************************************************************************)
(* Properties of the debounced search box                                  *)
(***************************************************************************)
\* C24: at most one timer is pending; debouncedSearch changes only in the
\* step of a timer that fires when the input has been unchanged for the
\* whole delay, and it changes to the current input value
C24_DebounceSafety ==
    /\ [](Cardinality(timers) <= 1)
    /\ [][debouncedSearch' # debouncedSearch =>
             /\ pc' = "timeout"
             /\ sinceChange >= Delay
             /\ debouncedSearch' = searchQuery]_vars

C24_Witness ==
    /\ pc = "timeout"
    /\ sinceChange >= Delay
    /\ searchQuery = <<"a">> /\ debouncedSearch = <<"a">>
    /\ timers = {}

\* C25: if the input stays at a value from some point on, debouncedSearch is
\* that value from some point on; and once the two are equal debouncedSearch
\* does not change in a step that keeps the input
C25_DebounceLiveness ==
    /\ \A v \in SearchInputs :
          <>[](searchQuery = v) => <>[](debouncedSearch = v)
    /\ [][(debouncedSearch = searchQuery /\ searchQuery' = searchQuery)
             => debouncedSearch' = debouncedSearch]_vars

C25_Witness ==
    /\ searchQuery = <<"a","b">> /\ debouncedSearch = <<"a","b">>
    /\ handler \notin { t.id : t \in timers }

\* the records of the category in the order of data.items
Unscored == IF data.isNull THEN <<>> ELSE categoryFilter(data.items, activeTab)

\* C27: handleCategoryChange sets the category, empties the search box and
\* keeps debouncedSearch, so the list it shows is still ranked by the old
\* query; as long as the box is empty and debouncedSearch is not, a timer
\* for the empty value is pending, and when it fires debouncedSearch is
\* empty and the list is the unscored records of the category
C27_CategoryChangeKeepsDebounced ==
    /\ [][pc' = "handleCategoryChange" =>
             /\ searchQuery' = <<>>
             /\ debouncedSearch' = debouncedSearch
             /\ (~data.isNull /\ ~IsBlank(debouncedSearch)) =>
                   \A i \in 1..Len(filteredReleases') :
                       /\ activeTab' \in {"All", filteredReleases'[i].category}
                       /\ scoreOf[<<filteredReleases'[i], debouncedSearch>>] > 0
                       /\ \A j \in 1..(i - 1) :
                             scoreOf[<<filteredReleases'[j], debouncedSearch>>]
                                >= scoreOf[<<filteredReleases'[i], debouncedSearch>>]]_vars
    /\ []((searchQuery = <<>> /\ debouncedSearch # <<>>) =>
             \E t \in timers : t.id = handler /\ t.value = <<>>)
    /\ [][(pc' = "timeout" /\ searchQuery = <<>>) =>
             /\ debouncedSearch' = <<>>
             /\ filteredReleases' = Unscored']_vars

C27_Witness ==
    /\ pc = "handleCategoryChange"
    /\ activeTab = "Anime" /\ searchQuery = <<>>
    /\ debouncedSearch = <<"a","b">>
    /\ filteredReleases = <<Rec("r2"), Rec("r1")>>
    /\ Unscored = <<Rec("r1"), Rec("r2")>>

(***************************************************************************)
(* Properties of the reminders                                             *)
(***************************************************************************)
\* C28: an id leaves notifiedItems only in a step of confirmRemoveNotify,
\* and it is the id the modal holds, which only initRemoveNotify (called
\* directly or by the click on a card) stores; handleToggleNotify removes
\* nothing and adds at most the one id; none of them changes watchlistItems
C28_NotifyRemovalOnlyByConfirm ==
    /\ [][\A id \in notifiedItems \ notifiedItems' :
             /\ pc' = "confirmRemoveNotify"
             /\ confirmModal.isOpen
             /\ id = confirmModal.itemId]_vars
    /\ [][confirmModal'.itemId # confirmModal.itemId =>
             /\ pc' \in {"initRemoveNotify", "handleNotifyClick"}
             /\ confirmModal'.isOpen]_vars
    /\ [][pc' \in {"handleToggleNotify", "handleNotifyClick"} =>
             /\ notifiedItems \subseteq notifiedItems'
             /\ Cardinality(notifiedItems' \ notifiedItems) <= 1]_vars
    /\ [][pc' \in {"handleToggleNotify", "initRemoveNotify", "confirmRemoveNotify",
                   "handleNotifyClick"}
             => watchlistItems' = watchlistItems]_vars

C28_Witness ==
    /\ pc = "confirmRemoveNotify"
    /\ ~confirmModal.isOpen /\ confirmModal.itemId = "r1"
    /\ notifiedItems = {"r2"}
    /\ watchlistItems = {"r1"}

(***************************************************************************)
(* Properties of loadData                                                  *)
(***************************************************************************)
\* the invocation whose fetch settles in the step
Settled == inflight \ inflight'

\* C29: loadData(false) with an entry of today that has items: if it is
\* less than an hour old it is displayed and no fetch is issued; if it is
\* older it is displayed and a fetch revalidates it in the background, and
\* when that fetch fails the cached data stays displayed and no error is
\* set; an error is set only by a fetch that fails while no cached data is
\* used; when a fetch settles loading is false
C29_CacheThenNetwork ==
    /\ [][(pc' = "mount" /\ CacheHit(cache) /\ cache.age = "fresh") =>
             /\ data' = cache.data /\ Screen' = "cards"
             /\ inflight' = {}]_vars
    /\ [][(pc' = "mount" /\ CacheHit(cache) /\ cache.age = "stale") =>
             /\ data' = cache.data /\ Screen' = "cards"
             /\ \E f \in inflight' : f.usingCache]_vars
    /\ [][(pc' = "rejected" /\ \E f \in Settled : f.usingCache) =>
             /\ data' = data /\ Screen' = "cards"
             /\ error' = "null"]_vars
    /\ [][(error' # "null" /\ error' # error) =>
             /\ pc' = "rejected"
             /\ \E f \in Settled : ~f.usingCache]_vars
    /\ [][pc' \in {"resolved", "rejected"} => ~loading']_vars

====
